---- MODULE Spec2Model ----
(***************************************************************************)
(* A model of the oEmbed resolver (class OEmbed, src/unnamed/part_000):    *)
(* the SSRF guard isIpOrLocalhost, the guarded request wrapper             *)
(* externalRequest, the page fetchers, in-page oEmbed discovery, bookmark  *)
(* extraction and the orchestrator fetchOembedDataFromUrl.                 *)
(*                                                                         *)
(* Everything outside the class (the network primitive, oembed-parser's    *)
(* extract/hasProvider, cheerio, charset, iconv, metascraper, the custom   *)
(* providers) is an input: each call draws its answer from a small set.    *)
(***************************************************************************)
EXTENDS Integers, Sequences, FiniteSets, TLC

(***************************************************************************)
(* URL strings.  A URL string is modelled by the parts the code looks at:  *)
(*   valid    - new URL(url) accepts it                                    *)
(*   pad      - it carries surrounding whitespace (removed by trim())      *)
(*   wrap     - "" for an ordinary URL; otherwise the prefix that          *)
(*              findUrlWithProvider glued in front of a string whose own   *)
(*              scheme its regular expression did not strip                *)
(*   scheme, www, name, port, path - scheme://[www.]name[:port]path        *)
(* port 0 stands for "no port written in the string".                      *)
(***************************************************************************)
Schemes == {"http", "https", "ftp"}

Names == {"example.com", "youtube.com", "ghost.site", "localhost", "127.0.0.1", "[::1]"}

\* hostnames for which IPV4_REGEX matches, and hostnames holding a colon
IPv4Names == {"127.0.0.1"}

ColonNames == {"[::1]"}

\* www.<name> is a parseable hostname only for a domain name
DomainNames == {"example.com", "youtube.com", "ghost.site", "localhost"}

Ports == {0, 80, 2368}

Paths == {"/", "/oembed", "/wp-json/oembed"}

Wraps == {"", "http://", "https://", "http://www.", "https://www."}

MkUrl(valid, pad, scheme, www, name, port, path) ==
    [valid |-> valid, pad |-> pad, wrap |-> "", scheme |-> scheme, www |-> www,
     name |-> name, port |-> port, path |-> path]

\* a string that new URL() rejects
BadUrl == MkUrl(FALSE, FALSE, "http", FALSE, "example.com", 0, "/")

Http(name) == MkUrl(TRUE, FALSE, "http", FALSE, name, 0, "/")

\* String.prototype.trim()
Trim(url) == [url EXCEPT !.pad = FALSE]

\* the default port of a scheme, which the URL parser drops from host
DefaultPort(scheme) ==
    CASE scheme = "http" -> 80
      [] scheme = "https" -> 443
      [] OTHER -> 21

(***************************************************************************)
(* new URL(url): the fields protocol, hostname and host of the parsed URL. *)
(* Defined for valid strings only (the constructor throws otherwise).      *)
(* A wrapped string "http://ftp://x/" parses with the inner scheme name as *)
(* its hostname.                                                           *)
(***************************************************************************)
ParseUrl(url) ==
    IF url.wrap = ""
    THEN [protocol |-> url.scheme,
          hostname |-> <<url.www, url.name>>,
          host     |-> <<url.www, url.name,
                         IF url.port = DefaultPort(url.scheme) THEN 0 ELSE url.port>>]
    ELSE [protocol |-> IF url.wrap \in {"http://", "http://www."} THEN "http" ELSE "https",
          hostname |-> <<url.wrap \in {"http://www.", "https://www."}, url.scheme>>,
          host     |-> <<url.wrap \in {"http://www.", "https://www."}, url.scheme, 0>>]

HTTP_REGEX(protocol) == protocol \in {"http", "https"}

IPV4_REGEX(hostname) == hostname[1] = FALSE /\ hostname[2] \in IPv4Names

IPV6_REGEX(hostname) == hostname[2] \in ColonNames

\* a mutant of the guard: the self-host exception compares hostnames, not hosts
isIpOrLocalhostByHostname(siteUrl, url) ==
    IF ~siteUrl.valid \/ ~url.valid
    THEN TRUE
    ELSE LET site == ParseUrl(siteUrl)
             u    == ParseUrl(url)
         IN  IF site.hostname = u.hostname
             THEN FALSE
             ELSE \/ ~HTTP_REGEX(u.protocol)
                  \/ u.hostname = <<FALSE, "localhost">>
                  \/ IPV4_REGEX(u.hostname)
                  \/ IPV6_REGEX(u.hostname)

\* a mutant of the guard: the unsafe rules are tested before the exception
isIpOrLocalhostRulesFirst(siteUrl, url) ==
    IF ~siteUrl.valid \/ ~url.valid
    THEN TRUE
    ELSE LET site == ParseUrl(siteUrl)
             u    == ParseUrl(url)
         IN  IF \/ ~HTTP_REGEX(u.protocol)
                \/ u.hostname = <<FALSE, "localhost">>
                \/ IPV4_REGEX(u.hostname)
                \/ IPV6_REGEX(u.hostname)
             THEN TRUE
             ELSE FALSE

\* a mutant of the guard: nothing is unsafe
isIpOrLocalhostNever(siteUrl, url) == FALSE

(***************************************************************************)
(* isIpOrLocalhost(url), with this.config.get('url') as siteUrl.  Any      *)
(* exception (either string fails to parse) gives TRUE.                    *)
(***************************************************************************)
isIpOrLocalhost(siteUrl, url) ==
    IF ~siteUrl.valid \/ ~url.valid
    THEN TRUE
    ELSE LET site == ParseUrl(siteUrl)
             u    == ParseUrl(url)
         IN  IF site.host = u.host
             THEN FALSE
             ELSE IF \/ ~HTTP_REGEX(u.protocol)
                     \/ u.hostname = <<FALSE, "localhost">>
                     \/ IPV4_REGEX(u.hostname)
                     \/ IPV6_REGEX(u.hostname)
                  THEN TRUE
                  ELSE FALSE

(***************************************************************************)
(* Errors and results.  Every promise of the class settles either with a   *)
(* value or with one of these errors.                                      *)
(***************************************************************************)
NoUrl == [valid |-> FALSE, pad |-> FALSE, wrap |-> "", scheme |-> "", www |-> FALSE,
          name |-> "", port |-> 0, path |-> ""]

NoPayload == [source |-> "none", type |-> "", version |-> "", fields |-> {}, meta |-> {}, url |-> NoUrl, by |-> 0]

Err(errorType, message, context) ==
    [kind |-> "throw", errorType |-> errorType, message |-> message,
     context |-> context, value |-> NoPayload]

Ret(payload) ==
    [kind |-> "return", errorType |-> "", message |-> "", context |-> NoUrl, value |-> payload]

Pending == [kind |-> "pending", errorType |-> "", message |-> "", context |-> NoUrl,
            value |-> NoPayload]

\* a mutant of unknownProvider: the error carries no context
unknownProviderNoContext(u) == Err("ValidationError", "unknownProvider", NoUrl)

\* unknownProvider(url): always rejects with the ValidationError 'No provider found'
unknownProvider(u) == Err("ValidationError", "unknownProvider", u)

\* the ValidationError of fetchBookmarkData for a missing title
insufficientMetadata(u) == Err("ValidationError", "insufficientMetadata", u)

\* an exception that is no Ghost error (network failure, TypeError, a thrown provider)
PlainError == Err("Error", "failure", NoUrl)

\* a mutant of the catch block: every error is replaced
CatchAll(err, u) == unknownProvider(u)

\* a mutant of the catch block: every error is rethrown
CatchNothing(err, u) == err

(***************************************************************************)
(* The catch block of fetchOembedDataFromUrl: a Ghost ValidationError is   *)
(* rethrown as it is, anything else becomes unknownProvider(url), url      *)
(* being the (possibly trimmed) parameter.                                 *)
(***************************************************************************)
Catch(err, u) ==
    IF err.errorType = "ValidationError" THEN err ELSE unknownProvider(u)

(***************************************************************************)
(* The network primitive handed to the constructor.  An answer is a        *)
(* failure or a response {url, headers, body}: url is the resolved         *)
(* (post-redirect) URL, enc what charset() detects in headers and body,    *)
(* link the oEmbed <link> of the HTML, json the parsed JSON body.          *)
(***************************************************************************)
Answer(failed, resolved, enc, link, json) ==
    [failed |-> failed, url |-> resolved, enc |-> enc, link |-> link, json |-> json]

NoAnswer == Answer(TRUE, NoUrl, "", "", "")

\* what became of one call of this.externalRequest; checks are the URLs
\* isIpOrLocalhost was called with
Fetched(asked, dispatched, answer, settled, checks) ==
    [asked |-> asked, dispatched |-> dispatched, answer |-> answer, settled |-> settled,
     checks |-> checks]

\* the network primitive itself, with no guard around it
rawRequest(u, answers) ==
    {Fetched(u, TRUE, a, IF a.failed THEN PlainError ELSE Ret(NoPayload), {}) : a \in answers}

\* a mutant of externalRequest: the resolved URL is not checked
externalRequestNoPostCheck(site, u, answers) ==
    IF isIpOrLocalhost(site, u)
    THEN {Fetched(u, FALSE, NoAnswer, unknownProvider(u), {u})}
    ELSE {Fetched(u, TRUE, a, IF a.failed THEN PlainError ELSE Ret(NoPayload), {u}) :
            a \in answers}

\* a mutant of externalRequest: the requested URL is not checked
externalRequestNoPreCheck(site, u, answers) ==
    {Fetched(u, TRUE, a,
             IF a.failed THEN PlainError
             ELSE IF isIpOrLocalhost(site, a.url) THEN unknownProvider(u)
             ELSE Ret(NoPayload),
             IF a.failed THEN {} ELSE {a.url}) : a \in answers}

\* a mutant of externalRequest: a rejected redirect is reported with the resolved URL
externalRequestResolvedContext(site, u, answers) ==
    IF isIpOrLocalhost(site, u)
    THEN {Fetched(u, FALSE, NoAnswer, unknownProvider(u), {u})}
    ELSE {Fetched(u, TRUE, a,
                  IF a.failed THEN PlainError
                  ELSE IF isIpOrLocalhost(site, a.url) THEN unknownProvider(a.url)
                  ELSE Ret(NoPayload),
                  IF a.failed THEN {u} ELSE {u, a.url}) : a \in answers}

(***************************************************************************)
(* this.externalRequest(url, requestConfig), the wrapper the constructor   *)
(* builds: the possible outcomes of one call, one per answer the network   *)
(* may give.  settled is Ret(..) when the response is handed back.         *)
(***************************************************************************)
externalRequest(site, u, answers) ==
    IF isIpOrLocalhost(site, u)
    THEN {Fetched(u, FALSE, NoAnswer, unknownProvider(u), {u})}
    ELSE {Fetched(u, TRUE, a,
                  IF a.failed THEN PlainError
                  ELSE IF isIpOrLocalhost(site, a.url) THEN unknownProvider(u)
                  ELSE Ret(NoPayload),
                  IF a.failed THEN {u} ELSE {u, a.url}) : a \in answers}

\* a mutant of fetchPage: every fetch reuses one cookie jar
fetchPageSharedJar(site, u, answers, jarsMade) ==
    {[jar |-> 1, f |-> f] : f \in externalRequest(site, u, answers)}

\* a mutant of fetchPage: the request goes to the network primitive unguarded
fetchPageUnguarded(site, u, answers, jarsMade) ==
    {[jar |-> jarsMade + 1, f |-> f] : f \in rawRequest(u, answers)}

(***************************************************************************)
(* fetchPage(url, options): a new CookieJar, then this.externalRequest.    *)
(* jarsMade counts the jars created so far; the new jar is the next one.   *)
(***************************************************************************)
fetchPage(site, u, answers, jarsMade) ==
    {[jar |-> jarsMade + 1, f |-> f] : f \in externalRequest(site, u, answers)}

(***************************************************************************)
(* fetchPageHtml, after the await: charset() detects the encoding; null    *)
(* gives body.toString(), an encoding iconv cannot decode throws and gives *)
(* body.toString() too, otherwise the decoded text.  url is the resolved   *)
(* URL of the response.                                                    *)
(***************************************************************************)
fetchPageHtml(answer) ==
    [url  |-> answer.url,
     body |-> [link |-> answer.link,
               text |-> IF answer.enc = "null" THEN "raw"
                        ELSE IF answer.enc = "bogus" THEN "raw"
                        ELSE "decoded"]]

NoBody == [link |-> "", text |-> ""]

(***************************************************************************)
(* findUrlWithProvider(url): the regular expression strips a leading       *)
(* http:// or https:// and www. (case-sensitively, at the very start of    *)
(* the string); the four variants are tested in order against the          *)
(* directory of oembed-parser (hasProvider).                               *)
(***************************************************************************)
testUrls(u) ==
    IF u.wrap = "" /\ ~u.pad /\ u.scheme \in {"http", "https"}
    THEN << [u EXCEPT !.scheme = "http",  !.www = FALSE],
            [u EXCEPT !.scheme = "https", !.www = FALSE],
            [u EXCEPT !.scheme = "http",  !.www = TRUE],
            [u EXCEPT !.scheme = "https", !.www = TRUE] >>
    ELSE << [u EXCEPT !.wrap = "http://"],
            [u EXCEPT !.wrap = "https://"],
            [u EXCEPT !.wrap = "http://www."],
            [u EXCEPT !.wrap = "https://www."] >>

hasProvider(dir, u) == u \in dir

\* a mutant of findUrlWithProvider: the last matching variant wins
findUrlWithProviderLast(dir, u) ==
    LET t == testUrls(u)
        hits == {i \in 1..4 : hasProvider(dir, t[i])}
    IN  IF hits = {}
        THEN [url |-> u, provider |-> FALSE]
        ELSE [url |-> t[CHOOSE i \in hits : \A j \in hits : j <= i], provider |-> TRUE]

\* a mutant of findUrlWithProvider: nothing ever matches
findUrlWithProviderNone(dir, u) == [url |-> u, provider |-> FALSE]

findUrlWithProvider(dir, u) ==
    LET t == testUrls(u)
        hits == {i \in 1..4 : hasProvider(dir, t[i])}
    IN  IF hits = {}
        THEN [url |-> u, provider |-> FALSE]
        ELSE [url |-> t[CHOOSE i \in hits : \A j \in hits : i <= j], provider |-> TRUE]

(***************************************************************************)
(* knownProvider(url): extract(url) of oembed-parser, which performs its   *)
(* own request; a failure is rethrown as an InternalServerError carrying   *)
(* the library's message.  The library's answer is kept as it is.          *)
(***************************************************************************)
ExtractAnswers == {"data", "throws"}

ExtractedFields == {"type", "version", "html", "width", "height", "title", "cache_age"}

knownProvider(u, answer) ==
    IF answer = "throws"
    THEN Err("InternalServerError", "extract", NoUrl)
    ELSE Ret([source |-> "known", type |-> "video", version |-> "1.0", fields |-> ExtractedFields,
              meta |-> {}, url |-> u, by |-> 0])

(***************************************************************************)
(* fetchOembedData, first half: cheerio looks for                          *)
(* link[type="application/json+oembed"] and reads its href.                *)
(*   link = "invalid": cheerio throws      link = "none": no such element  *)
(*   link = "wp": href holds wp-json/oembed                                *)
(*   link = "plain": another endpoint      link = "unsafe": a local one    *)
(***************************************************************************)
Links == {"none", "wp", "plain", "unsafe", "invalid"}

oembedUrl(link) ==
    CASE link = "wp"     -> MkUrl(TRUE, FALSE, "http", FALSE, "example.com", 0, "/wp-json/oembed")
      [] link = "plain"  -> MkUrl(TRUE, FALSE, "http", FALSE, "example.com", 0, "/oembed")
      [] link = "unsafe" -> MkUrl(TRUE, FALSE, "http", FALSE, "127.0.0.1", 0, "/oembed")
      [] OTHER           -> NoUrl

\* oembedUrl.match(/wp-json\/oembed/)
MatchesWpJson(u) == u.path = "/wp-json/oembed"

\* a mutant: the card type of the request reaches fetchOembedData
cardTypeArgumentPassed(type) == type

\* the third argument of fetchOembedData at its one call site: none is passed
cardTypeArgument(type) == ""

\* a mutant of the link test: a wp-json link is never deferred
discoverLinkNoDefer(link, cardType) ==
    IF link = "invalid" THEN "throw"
    ELSE IF link = "none" THEN "nothing"
    ELSE "fetch"

\* "throw": unknownProvider(url); "nothing": undefined is returned; "fetch": the
\* link is fetched as JSON
discoverLink(link, cardType) ==
    IF link = "invalid" THEN "throw"
    ELSE IF link = "none" THEN "nothing"
    ELSE IF cardType = "" /\ MatchesWpJson(oembedUrl(link)) THEN "nothing"
    ELSE "fetch"

(***************************************************************************)
(* JSON bodies the discovered endpoint may answer with: type, version and  *)
(* the set of further fields holding a truthy value.  "null" is a body     *)
(* that is no object (reading body.type throws a TypeError).               *)
(***************************************************************************)
JsonBodies == {"photo", "photoNoUrl", "video", "videoNoWidth", "link", "badType",
               "noVersion", "null"}

JsonBody(j) ==
    CASE j = "photo"        -> [type |-> "photo", version |-> "1.0", has |-> {"url", "title", "cache_age"}]
      [] j = "photoNoUrl"   -> [type |-> "photo", version |-> "1.0", has |-> {"title"}]
      [] j = "video"        -> [type |-> "video", version |-> "1.0", has |-> {"html", "width", "height", "secret"}]
      [] j = "videoNoWidth" -> [type |-> "rich",  version |-> "1.0", has |-> {"html", "height"}]
      [] j = "link"         -> [type |-> "link",  version |-> "1.0", has |-> {"provider_name"}]
      [] j = "badType"      -> [type |-> "other", version |-> "1.0", has |-> {"url", "html"}]
      [] OTHER              -> [type |-> "photo", version |-> "",    has |-> {"url"}]

knownFields == {"type", "version", "html", "url", "title", "width", "height",
                "author_name", "author_url", "provider_name", "provider_url",
                "thumbnail_url", "thumbnail_width", "thumbnail_height"}

\* the fields of a body: type and version when non-empty, and the others
FieldsOf(b) ==
    b.has \cup (IF b.type = "" THEN {} ELSE {"type"})
          \cup (IF b.version = "" THEN {} ELSE {"version"})

\* a mutant of the validation: the response body is passed through
validateOembedNoPick(j, u) ==
    IF j = "null" THEN PlainError
    ELSE LET b == JsonBody(j)
         IN  IF b.type # "" /\ b.version # "" /\ b.type \in {"photo", "video", "link", "rich"}
             THEN Ret([source |-> "discovery", type |-> b.type, version |-> b.version, fields |-> FieldsOf(b),
                       meta |-> {}, url |-> u, by |-> 0])
             ELSE Ret(NoPayload)

(***************************************************************************)
(* fetchOembedData, second half: the validation of the fetched JSON.       *)
(* Ret(NoPayload) stands for returning undefined.                          *)
(***************************************************************************)
validateOembed(j, u) ==
    IF j = "null" THEN PlainError
    ELSE LET b == JsonBody(j)
             hasRequiredFields == b.type # "" /\ b.version # ""
             hasValidType == b.type \in {"photo", "video", "link", "rich"}
             oembed == FieldsOf(b) \cap knownFields
         IN  IF hasRequiredFields /\ hasValidType
             THEN IF b.type = "photo" /\ "url" \notin oembed
                  THEN Ret(NoPayload)
                  ELSE IF b.type \in {"video", "rich"}
                          /\ ("html" \notin oembed \/ "width" \notin oembed \/ "height" \notin oembed)
                  THEN Ret(NoPayload)
                  ELSE Ret([source |-> "discovery", type |-> b.type, version |-> b.version, fields |-> oembed,
                            meta |-> {}, url |-> u, by |-> 0])
             ELSE Ret(NoPayload)

(***************************************************************************)
(* fetchBookmarkData(url, html): metascraper answers with a set of         *)
(* <<key, value>> pairs, or throws.                                        *)
(***************************************************************************)
Scrapes == {"titled", "titledBare", "untitled", "throws"}

ScraperResponse(s) ==
    CASE s = "titled"     -> {<<"url", "U">>, <<"title", "T">>, <<"description", "D">>,
                               <<"image", "I">>, <<"logo", "L">>}
      [] s = "titledBare" -> {<<"url", "U">>, <<"title", "T">>}
      [] OTHER            -> {<<"url", "U">>, <<"image", "I">>}

ValueOf(pairs, key) ==
    IF \E q \in pairs : q[1] = key THEN (CHOOSE q \in pairs : q[1] = key)[2] ELSE "undefined"

\* a mutant of fetchBookmarkData: image and logo are copied, not renamed
fetchBookmarkDataKeepsImage(u, s) ==
    IF s = "throws" THEN unknownProvider(u)
    ELSE LET scraperResponse == ScraperResponse(s)
             metadata == scraperResponse
                           \cup {<<"thumbnail", ValueOf(scraperResponse, "image")>>,
                                 <<"icon", ValueOf(scraperResponse, "logo")>>}
         IN  IF ValueOf(metadata, "title") = "undefined"
             THEN insufficientMetadata(u)
             ELSE Ret([source |-> "bookmark", type |-> "bookmark", version |-> "1.0",
                       fields |-> {"version", "type", "url", "metadata"},
                       meta |-> metadata, url |-> u, by |-> 0])

\* a mutant of fetchBookmarkData: a missing title is let through
fetchBookmarkDataNoTitleCheck(u, s) ==
    IF s = "throws" THEN unknownProvider(u)
    ELSE Ret([source |-> "bookmark", type |-> "bookmark", version |-> "1.0",
              fields |-> {"version", "type", "url", "metadata"},
              meta |-> ScraperResponse(s), url |-> u, by |-> 0])

fetchBookmarkData(u, s) ==
    IF s = "throws" THEN unknownProvider(u)
    ELSE LET scraperResponse == ScraperResponse(s)
             metadata == {q \in scraperResponse : q[1] \notin {"image", "logo"}}
                           \cup {<<"thumbnail", ValueOf(scraperResponse, "image")>>,
                                 <<"icon", ValueOf(scraperResponse, "logo")>>}
         IN  IF ValueOf(metadata, "title") = "undefined"
             THEN insufficientMetadata(u)
             ELSE Ret([source |-> "bookmark", type |-> "bookmark", version |-> "1.0",
                       fields |-> {"version", "type", "url", "metadata"},
                       meta |-> metadata, url |-> u, by |-> 0])

(***************************************************************************)
(* Custom providers.  A provider is modelled by what its two methods do:   *)
(*   "false"      canSupportRequest answers false                          *)
(*   "null"       getOEmbedData answers null                               *)
(*   "undefined"  getOEmbedData answers undefined                          *)
(*   "data"       getOEmbedData answers its own result                     *)
(*   "canThrows"  canSupportRequest throws                                 *)
(*   "getThrows"  getOEmbedData throws                                     *)
(*   "getThrowsValidation"  getOEmbedData throws a ValidationError of its  *)
(*                own                                                      *)
(*   "requests"   getOEmbedData uses the externalRequest it was handed,    *)
(*                lets a failure through and answers its result otherwise  *)
(***************************************************************************)
ProviderKinds == {"false", "null", "undefined", "data", "canThrows", "getThrows",
                  "getThrowsValidation", "requests"}

MaxProviders == 2

ProviderData(i) ==
    [source |-> "provider", type |-> "nft", version |-> "1.0", fields |-> {"type", "version", "html", "card_name"},
     meta |-> {}, url |-> NoUrl, by |-> i]

ProviderApi == MkUrl(TRUE, FALSE, "https", FALSE, "example.com", 0, "/oembed")

ProviderUrls == {ProviderApi, Http("127.0.0.1")}

ProviderError == Err("ValidationError", "providerMessage", ProviderApi)

(***************************************************************************)
(* The inputs of a call and the answers of the outside world.              *)
(***************************************************************************)
Types == {"", "bookmark", "embed"}

SiteUrls == {Http("ghost.site"), MkUrl(TRUE, FALSE, "http", FALSE, "localhost", 2368, "/")}

RequestUrls ==
    {BadUrl,
     Http("example.com"),
     MkUrl(TRUE, TRUE, "http", FALSE, "example.com", 0, "/"),
     Http("youtube.com"),
     Http("localhost"),
     MkUrl(TRUE, FALSE, "http", FALSE, "localhost", 2368, "/"),
     Http("127.0.0.1"),
     MkUrl(TRUE, FALSE, "ftp", FALSE, "youtube.com", 0, "/")}

\* directories of oembed-parser: the strings hasProvider accepts
DirPlain == {MkUrl(TRUE, FALSE, "https", TRUE, "youtube.com", 0, "/")}

DirLoose ==
    {MkUrl(TRUE, FALSE, "https", FALSE, "youtube.com", 0, "/"),
     MkUrl(TRUE, FALSE, "http", TRUE, "youtube.com", 0, "/"),
     [MkUrl(TRUE, FALSE, "ftp", FALSE, "youtube.com", 0, "/") EXCEPT !.wrap = "https://"]}

Directories == {DirPlain, DirLoose}

Redirects == {Http("youtube.com"), Http("127.0.0.1"), Http("localhost"),
              MkUrl(TRUE, FALSE, "https", FALSE, "example.com", 0, "/")}

HtmlAnswers(u) ==
    {NoAnswer}
      \cup {Answer(FALSE, u, e, "none", "") : e \in {"null", "bogus"}}
      \cup {Answer(FALSE, u, "utf8", l, "") : l \in Links}
      \cup {Answer(FALSE, r, "utf8", l, "") : r \in Redirects, l \in {"none", "plain"}}

JsonAnswers(u) ==
    {NoAnswer}
      \cup {Answer(FALSE, u, "", "", j) : j \in JsonBodies}
      \cup {Answer(FALSE, Http("127.0.0.1"), "", "", "photo")}

ProviderAnswers(u) ==
    {NoAnswer, Answer(FALSE, u, "", "", "photo"), Answer(FALSE, Http("127.0.0.1"), "", "", "photo")}

(***************************************************************************)
(* InMemoryMilestoneRepository.  A milestone is modelled by the fields the *)
(* repository reads: id, type, currency, value and createdAt (a time).     *)
(* NoMilestone stands for undefined.                                       *)
(***************************************************************************)
MaxStore == 2

MilestoneIds == 1..MaxStore

MilestoneTypes == {"arr", "members"}

Currencies == {"usd", "eur"}

MilestoneValues == {100, 1000}

Times == {1, 2}

Milestones ==
    [id : MilestoneIds, type : {"arr"}, currency : Currencies, value : MilestoneValues,
     createdAt : Times]
      \cup [id : MilestoneIds, type : {"members"}, currency : {"null"},
            value : MilestoneValues, createdAt : Times]

NoMilestone ==
    [id |-> 0, type |-> "", currency |-> "", value |-> 0, createdAt |-> 0]

NoQuery == [type |-> "", currency |-> ""]

\* the filter callbacks: type and currency for 'arr', the type alone otherwise
Matching(item, type, currency) ==
    IF type = "arr"
    THEN item.type = type /\ item.currency = currency
    ELSE item.type = type

\* Array.prototype.filter with that callback
RECURSIVE SelectItems(_, _, _)
SelectItems(items, type, currency) ==
    IF items = << >> THEN << >>
    ELSE IF Matching(Head(items), type, currency)
         THEN <<Head(items)>> \o SelectItems(Tail(items), type, currency)
         ELSE SelectItems(Tail(items), type, currency)

\* item goes behind every entry whose key is not smaller than its own
RECURSIVE InsertDesc(_, _, _)
InsertDesc(item, sorted, key) ==
    IF sorted = << >> THEN <<item>>
    ELSE IF Head(sorted)[key] >= item[key]
         THEN <<Head(sorted)>> \o InsertDesc(item, Tail(sorted), key)
         ELSE <<item>> \o sorted

\* Array.prototype.sort((a, b) => b[key] - a[key]): descending by key, and
\* stable, so entries with equal keys keep their order
RECURSIVE SortDesc(_, _)
SortDesc(items, key) ==
    IF items = << >> THEN << >>
    ELSE InsertDesc(items[Len(items)], SortDesc(SubSeq(items, 1, Len(items) - 1), key), key)

\* [0] of an array
First(items) == IF items = << >> THEN NoMilestone ELSE items[1]

\* the default value of the parameter currency
CurrencyArgument(currency) == IF currency = "undefined" THEN "usd" ELSE currency

\* getLatestByType(type, currency) on the store items
getLatestByType(items, type, currency) ==
    First(SortDesc(SortDesc(SelectItems(items, type, CurrencyArgument(currency)),
                            "createdAt"), "value"))

\* findIndex(item => item.id.equals(id)); 0 stands for -1
FindIndex(items, id) ==
    IF \E i \in DOMAIN items : items[i].id = id
    THEN CHOOSE i \in DOMAIN items : items[i].id = id /\ \A j \in 1..(i - 1) : items[j].id # id
    ELSE 0

\* a mutant of save: a known milestone replaces the first entry of the store
saveReplacesFirst(items, known, milestone) ==
    IF milestone.id \in known
    THEN [store |-> [items EXCEPT ![1] = milestone], ids |-> known]
    ELSE [store |-> Append(items, milestone), ids |-> known \cup {milestone.id}]

\* save(milestone): the store and the ids after the call
save(items, known, milestone) ==
    IF milestone.id \in known
    THEN [store |-> [items EXCEPT ![FindIndex(items, milestone.id)] = milestone],
          ids |-> known]
    ELSE [store |-> Append(items, milestone), ids |-> known \cup {milestone.id}]

VARIABLES
    siteUrl,          \* this.config.get('url')
    directory,        \* the provider directory behind hasProvider
    customProviders,  \* this.customProviders
    pc,               \* where the call of fetchOembedDataFromUrl stands
    reqUrl, reqType,  \* the arguments of the call
    url,              \* the parameter url, trimmed once parsed
    provIdx,          \* the provider the for loop is at
    pageUrl, body,    \* what fetchPageHtml returned
    target,           \* the URL handed to knownProvider or fetchPageJson
    awaited,          \* whether fetchBookmarkData is awaited inside the try block
    outcome,          \* how the call settled
    jars,             \* cookie jars created
    fetches,          \* history: every call of this.externalRequest
    extracts,         \* history: every URL handed to extract()
    consumed,         \* history: the answers whose headers or body were read
    calls,            \* history: the stages invoked, in order
    verdict,          \* the answer of a single call of isIpOrLocalhost
    scraped,          \* history: what metascraper answered
    store,            \* InMemoryMilestoneRepository: #store
    ids,              \* InMemoryMilestoneRepository: #ids
    asked,            \* the arguments of the last getLatestByType
    latest,           \* what the last getLatestByType returned
    saved             \* history: the argument of the last save

vars == <<store, ids, asked, latest, saved, scraped, siteUrl, directory, customProviders, pc, reqUrl, reqType, url, provIdx, pageUrl,
          body, target, awaited, outcome, jars, fetches, extracts, consumed, calls, verdict>>

Init ==
    /\ siteUrl \in SiteUrls
    /\ directory \in Directories
    /\ customProviders = << >>
    /\ pc = "idle"
    /\ reqUrl = NoUrl
    /\ reqType = ""
    /\ url = NoUrl
    /\ provIdx = 0
    /\ pageUrl = NoUrl
    /\ body = NoBody
    /\ target = NoUrl
    /\ awaited = FALSE
    /\ outcome = Pending
    /\ jars = 0
    /\ fetches = << >>
    /\ extracts = << >>
    /\ consumed = {}
    /\ calls = << >>
    /\ verdict = FALSE
    /\ scraped = ""
    /\ store = << >>
    /\ ids = {}
    /\ asked = NoQuery
    /\ latest = NoMilestone
    /\ saved = NoMilestone

Call(op, u, i) == [op |-> op, url |-> u, idx |-> i]

\* registerProvider(provider)
registerProvider(kind) ==
    /\ pc = "idle"
    /\ Len(customProviders) < MaxProviders
    /\ customProviders' = Append(customProviders, kind)
    /\ UNCHANGED <<store, ids, asked, latest, saved, verdict, scraped, siteUrl, directory, pc, reqUrl, reqType, url, provIdx, pageUrl, body,
                   target, awaited, outcome, jars, fetches, extracts, consumed, calls>>

(***************************************************************************)
(* fetchOembedDataFromUrl(url, type), up to the provider loop: new URL(url)*)
(* throws for an unparseable string, and the catch block answers with the  *)
(* untrimmed url; otherwise url is trimmed.                                *)
(***************************************************************************)
Start(u, t) ==
    /\ pc = "idle"
    /\ reqUrl' = u
    /\ reqType' = t
    /\ IF u.valid
       THEN /\ url' = Trim(u)
            /\ provIdx' = 1
            /\ pc' = "providers"
            /\ outcome' = outcome
       ELSE /\ url' = u
            /\ provIdx' = provIdx
            /\ pc' = "done"
            /\ outcome' = Catch(PlainError, u)
    /\ UNCHANGED <<store, ids, asked, latest, saved, verdict, scraped, siteUrl, directory, customProviders, pageUrl, body, target, awaited, jars,
                   fetches, extracts, consumed, calls>>

InLoop == pc = "providers" /\ provIdx <= Len(customProviders)

\* a provider that declines: the loop goes on
ProviderDeclines ==
    /\ InLoop
    /\ customProviders[provIdx] \in {"false", "null"}
    /\ calls' = calls \o (IF customProviders[provIdx] = "false"
                          THEN <<Call("canSupportRequest", url, provIdx)>>
                          ELSE <<Call("canSupportRequest", url, provIdx),
                                 Call("getOEmbedData", url, provIdx)>>)
    /\ provIdx' = provIdx + 1
    /\ UNCHANGED <<store, ids, asked, latest, saved, verdict, scraped, siteUrl, directory, customProviders, pc, reqUrl, reqType, url, pageUrl, body,
                   target, awaited, outcome, jars, fetches, extracts, consumed>>

\* a mutant of the loop: a provider's result does not end a bookmark request
ProviderReturnsUnlessBookmark ==
    /\ InLoop
    /\ customProviders[provIdx] \in {"data", "undefined"}
    /\ calls' = calls \o <<Call("canSupportRequest", url, provIdx),
                           Call("getOEmbedData", url, provIdx)>>
    /\ IF reqType = "bookmark"
       THEN provIdx' = provIdx + 1 /\ UNCHANGED <<pc, outcome>>
       ELSE /\ outcome' = IF customProviders[provIdx] = "data"
                          THEN Ret(ProviderData(provIdx))
                          ELSE Ret(NoPayload)
            /\ pc' = "done"
            /\ provIdx' = provIdx
    /\ UNCHANGED <<store, ids, asked, latest, saved, verdict, scraped, siteUrl, directory, customProviders, reqUrl, reqType, url, pageUrl,
                   body, target, awaited, jars, fetches, extracts, consumed>>

\* a provider whose result is not null: it is returned (undefined is not null)
ProviderReturns ==
    /\ InLoop
    /\ customProviders[provIdx] \in {"data", "undefined"}
    /\ calls' = calls \o <<Call("canSupportRequest", url, provIdx),
                           Call("getOEmbedData", url, provIdx)>>
    /\ outcome' = IF customProviders[provIdx] = "data"
                  THEN Ret(ProviderData(provIdx))
                  ELSE Ret(NoPayload)
    /\ pc' = "done"
    /\ UNCHANGED <<store, ids, asked, latest, saved, verdict, scraped, siteUrl, directory, customProviders, reqUrl, reqType, url, provIdx, pageUrl,
                   body, target, awaited, jars, fetches, extracts, consumed>>

\* a provider that throws: the catch block decides
ProviderThrows ==
    /\ InLoop
    /\ customProviders[provIdx] \in {"canThrows", "getThrows", "getThrowsValidation"}
    /\ calls' = calls \o (IF customProviders[provIdx] = "canThrows"
                          THEN <<Call("canSupportRequest", url, provIdx)>>
                          ELSE <<Call("canSupportRequest", url, provIdx),
                                 Call("getOEmbedData", url, provIdx)>>)
    /\ outcome' = Catch(IF customProviders[provIdx] = "getThrowsValidation"
                        THEN ProviderError ELSE PlainError, url)
    /\ pc' = "done"
    /\ UNCHANGED <<store, ids, asked, latest, saved, verdict, scraped, siteUrl, directory, customProviders, reqUrl, reqType, url, provIdx, pageUrl,
                   body, target, awaited, jars, fetches, extracts, consumed>>

\* a provider that fetches through the externalRequest handed to it
ProviderRequests ==
    /\ InLoop
    /\ customProviders[provIdx] = "requests"
    /\ calls' = calls \o <<Call("canSupportRequest", url, provIdx),
                           Call("getOEmbedData", url, provIdx)>>
    /\ \E u \in ProviderUrls :
         \E f \in externalRequest(siteUrl, u, ProviderAnswers(u)) :
            /\ fetches' = Append(fetches, [stage |-> "provider", jar |-> 0, f |-> f])
            /\ IF f.settled.kind = "return"
               THEN /\ consumed' = consumed \cup {[stage |-> "provider", answer |-> f.answer]}
                    /\ outcome' = Ret(ProviderData(provIdx))
               ELSE /\ consumed' = consumed
                    /\ outcome' = Catch(f.settled, url)
    /\ pc' = "done"
    /\ UNCHANGED <<store, ids, asked, latest, saved, verdict, scraped, siteUrl, directory, customProviders, reqUrl, reqType, url, provIdx, pageUrl,
                   body, target, awaited, jars, extracts>>

\* `await promise` inside the try block: a rejection goes through the catch block
awaitInTry(settled, u) ==
    IF settled.kind = "throw" THEN Catch(settled, u) ELSE settled

\* a mutant of the return statements: the promise is awaited inside the try block
returnAwaited(settled, u) == awaitInTry(settled, u)

(***************************************************************************)
(* `return this.knownProvider(providerUrl)` and, for a bookmark request,   *)
(* `return this.fetchBookmarkData(url, body)`: the promise is returned     *)
(* from inside the try block without await, so the call settles as the     *)
(* promise does and the catch block never sees its rejection.              *)
(***************************************************************************)
returnPromise(settled, u) == settled

\* a mutant of the matcher step: a bookmark request consults the directory too
matchRequestedAlways(dir, u, type) == findUrlWithProvider(dir, u)

\* the requested URL is matched against the directory unless a bookmark is asked for
matchRequested(dir, u, type) ==
    IF type # "bookmark"
    THEN findUrlWithProvider(dir, u)
    ELSE [url |-> u, provider |-> FALSE]

\* the loop is over: the known-provider matcher, then either knownProvider or the page
AfterProviders ==
    /\ pc = "providers"
    /\ provIdx > Len(customProviders)
    /\ LET m == matchRequested(directory, url, reqType)
       IN  /\ calls' = IF reqType # "bookmark"
                       THEN Append(calls, Call("findUrlWithProvider", url, 0))
                       ELSE calls
           /\ IF m.provider
              THEN pc' = "knownProvider" /\ target' = m.url
              ELSE pc' = "fetchPageHtml" /\ target' = target
    /\ UNCHANGED <<store, ids, asked, latest, saved, verdict, scraped, siteUrl, directory, customProviders, reqUrl, reqType, url, provIdx, pageUrl,
                   body, awaited, outcome, jars, fetches, extracts, consumed>>

\* knownProvider(providerUrl), returned without await
KnownProvider ==
    /\ pc = "knownProvider"
    /\ \E x \in ExtractAnswers :
         outcome' = returnPromise(knownProvider(target, x), url)
    /\ extracts' = Append(extracts, target)
    /\ calls' = Append(calls, Call("knownProvider", target, 0))
    /\ pc' = "done"
    /\ UNCHANGED <<store, ids, asked, latest, saved, verdict, scraped, siteUrl, directory, customProviders, reqUrl, reqType, url, provIdx, pageUrl,
                   body, target, awaited, jars, fetches, consumed>>

\* a mutant of the redirect test: the resolved URL is never matched
matchResolvedNever(dir, u, resolved, type) == [url |-> resolved, provider |-> FALSE]

\* a mutant of the redirect test: the resolved URL is matched for every request
matchResolvedAlways(dir, u, resolved, type) == findUrlWithProvider(dir, resolved)

\* the resolved URL is matched against the directory when it differs from url
matchResolved(dir, u, resolved, type) ==
    IF resolved # u
    THEN findUrlWithProvider(dir, resolved)
    ELSE [url |-> resolved, provider |-> FALSE]

(***************************************************************************)
(* await this.fetchPageHtml(url), and what follows it up to the next call: *)
(* a bookmark request goes to fetchBookmarkData, a redirect to a known     *)
(* provider goes to knownProvider, anything else to fetchOembedData.       *)
(***************************************************************************)
FetchPageHtml ==
    /\ pc = "fetchPageHtml"
    /\ \E p \in fetchPage(siteUrl, url, HtmlAnswers(url), jars) :
         /\ fetches' = Append(fetches, [stage |-> "html", jar |-> p.jar, f |-> p.f])
         /\ IF p.f.settled.kind = "throw"
            THEN /\ outcome' = Catch(p.f.settled, url)
                 /\ pc' = "done"
                 /\ UNCHANGED <<pageUrl, body, target, awaited, consumed>>
                 /\ calls' = Append(calls, Call("fetchPageHtml", url, 0))
            ELSE LET page == fetchPageHtml(p.f.answer)
                     m == matchResolved(directory, url, page.url, reqType)
                 IN  /\ consumed' = consumed \cup {[stage |-> "html", answer |-> p.f.answer]}
                     /\ pageUrl' = page.url
                     /\ body' = page.body
                     /\ outcome' = outcome
                     /\ IF reqType = "bookmark"
                        THEN /\ pc' = "fetchBookmarkData"
                             /\ awaited' = FALSE
                             /\ target' = target
                             /\ calls' = Append(calls, Call("fetchPageHtml", url, 0))
                        ELSE /\ awaited' = awaited
                             /\ calls' = calls \o
                                   (IF page.url # url
                                    THEN <<Call("fetchPageHtml", url, 0),
                                           Call("findUrlWithProvider", page.url, 0)>>
                                    ELSE <<Call("fetchPageHtml", url, 0)>>)
                             /\ IF m.provider
                                THEN pc' = "knownProvider" /\ target' = m.url
                                ELSE pc' = "fetchOembedData" /\ target' = target
    /\ jars' = jars + 1
    /\ UNCHANGED <<store, ids, asked, latest, saved, verdict, scraped, siteUrl, directory, customProviders, reqUrl, reqType, url, provIdx, extracts>>

\* a mutant of the fallback test: the bookmark fallback runs for any requested type
AfterDiscoveryAnyType(data) ==
    IF data = NoPayload
    THEN pc' = "fetchBookmarkData" /\ awaited' = TRUE /\ outcome' = outcome
    ELSE /\ pc' = "done"
         /\ awaited' = awaited
         /\ outcome' = Ret(data)

(***************************************************************************)
(* What fetchOembedDataFromUrl does with the data of fetchOembedData:      *)
(* return it, or fall back to the bookmark when no type was asked for, or  *)
(* answer unknownProvider(url).  data = NoPayload stands for undefined.    *)
(***************************************************************************)
AfterDiscovery(data) ==
    IF data = NoPayload /\ reqType = ""
    THEN pc' = "fetchBookmarkData" /\ awaited' = TRUE /\ outcome' = outcome
    ELSE /\ pc' = "done"
         /\ awaited' = awaited
         /\ outcome' = IF data = NoPayload THEN unknownProvider(url) ELSE Ret(data)

\* await this.fetchOembedData(url, body), up to its fetch of the link
FetchOembedData ==
    /\ pc = "fetchOembedData"
    /\ calls' = Append(calls, Call("fetchOembedData", url, 0))
    /\ LET d == discoverLink(body.link, cardTypeArgument(reqType))
       IN  CASE d = "throw" ->
                  /\ outcome' = Catch(unknownProvider(url), url)
                  /\ pc' = "done"
                  /\ UNCHANGED <<target, awaited>>
             [] d = "nothing" ->
                  /\ AfterDiscovery(NoPayload)
                  /\ target' = target
             [] OTHER ->
                  /\ pc' = "fetchPageJson"
                  /\ target' = oembedUrl(body.link)
                  /\ UNCHANGED <<outcome, awaited>>
    /\ UNCHANGED <<store, ids, asked, latest, saved, verdict, scraped, siteUrl, directory, customProviders, reqUrl, reqType, url, provIdx, pageUrl,
                   body, jars, fetches, extracts, consumed>>

\* a mutant of the link fetch: a failed fetch counts as an empty discovery
FetchPageJsonFallsBack ==
    /\ pc = "fetchPageJson"
    /\ calls' = Append(calls, Call("fetchPageJson", target, 0))
    /\ \E p \in fetchPage(siteUrl, target, JsonAnswers(target), jars) :
         /\ fetches' = Append(fetches, [stage |-> "json", jar |-> p.jar, f |-> p.f])
         /\ IF p.f.settled.kind = "throw"
            THEN /\ AfterDiscovery(NoPayload)
                 /\ consumed' = consumed
            ELSE LET v == validateOembed(p.f.answer.json, url)
                 IN  /\ consumed' = consumed \cup {[stage |-> "json", answer |-> p.f.answer]}
                     /\ IF v.kind = "throw"
                        THEN /\ outcome' = Catch(v, url)
                             /\ pc' = "done"
                             /\ awaited' = awaited
                        ELSE AfterDiscovery(v.value)
    /\ jars' = jars + 1
    /\ UNCHANGED <<store, ids, asked, latest, saved, verdict, scraped, siteUrl, directory, customProviders, reqUrl, reqType, url,
                   provIdx, pageUrl, body, target, extracts>>

\* await this.fetchPageJson(oembedUrl), the validation, and what follows it
FetchPageJson ==
    /\ pc = "fetchPageJson"
    /\ calls' = Append(calls, Call("fetchPageJson", target, 0))
    /\ \E p \in fetchPage(siteUrl, target, JsonAnswers(target), jars) :
         /\ fetches' = Append(fetches, [stage |-> "json", jar |-> p.jar, f |-> p.f])
         /\ IF p.f.settled.kind = "throw"
            THEN /\ outcome' = Catch(p.f.settled, url)
                 /\ pc' = "done"
                 /\ UNCHANGED <<awaited, consumed>>
            ELSE LET v == validateOembed(p.f.answer.json, url)
                 IN  /\ consumed' = consumed \cup {[stage |-> "json", answer |-> p.f.answer]}
                     /\ IF v.kind = "throw"
                        THEN /\ outcome' = Catch(v, url)
                             /\ pc' = "done"
                             /\ awaited' = awaited
                        ELSE AfterDiscovery(v.value)
    /\ jars' = jars + 1
    /\ UNCHANGED <<store, ids, asked, latest, saved, verdict, scraped, siteUrl, directory, customProviders, reqUrl, reqType, url, provIdx, pageUrl,
                   body, target, extracts>>

\* fetchBookmarkData(url, body): awaited in the fallback, returned as a promise
\* for a bookmark request
FetchBookmarkData ==
    /\ pc = "fetchBookmarkData"
    /\ calls' = Append(calls, Call("fetchBookmarkData", url, 0))
    /\ \E s \in Scrapes :
         /\ scraped' = s
         /\ outcome' = IF awaited
                       THEN awaitInTry(fetchBookmarkData(url, s), url)
                       ELSE returnPromise(fetchBookmarkData(url, s), url)
    /\ pc' = "done"
    /\ UNCHANGED <<store, ids, asked, latest, saved, verdict, siteUrl, directory, customProviders, reqUrl, reqType, url, provIdx, pageUrl,
                   body, target, awaited, jars, fetches, extracts, consumed>>

Next ==
    \/ \E k \in ProviderKinds : registerProvider(k)
    \/ \E u \in RequestUrls, t \in Types : Start(u, t)
    \/ ProviderDeclines
    \/ ProviderReturns
    \/ ProviderThrows
    \/ ProviderRequests
    \/ AfterProviders
    \/ KnownProvider
    \/ FetchPageHtml
    \/ FetchOembedData
    \/ FetchPageJson
    \/ FetchBookmarkData

Spec == Init /\ [][Next]_vars

(***************************************************************************)
(* The guard on its own: one call of isIpOrLocalhost(url) for a site URL   *)
(* and a URL string drawn from every combination of the parts.             *)
(***************************************************************************)
GuardUrls ==
    {MkUrl(v, p, s, w, n, q, "/") :
        v \in BOOLEAN, p \in BOOLEAN, s \in Schemes,
        w \in BOOLEAN, n \in Names, q \in Ports} \ 
    {MkUrl(v, p, s, TRUE, n, q, "/") :
        v \in BOOLEAN, p \in BOOLEAN, s \in Schemes, n \in Names \ DomainNames, q \in Ports}

GuardSites ==
    {Http("ghost.site"),
     MkUrl(TRUE, FALSE, "http", TRUE, "ghost.site", 80, "/"),
     MkUrl(TRUE, FALSE, "http", FALSE, "localhost", 2368, "/"),
     MkUrl(TRUE, FALSE, "http", FALSE, "127.0.0.1", 2368, "/"),
     MkUrl(TRUE, FALSE, "https", FALSE, "[::1]", 0, "/"),
     BadUrl}

InitGuard ==
    /\ siteUrl \in GuardSites
    /\ directory = {}
    /\ customProviders = << >>
    /\ pc = "guard"
    /\ reqUrl \in GuardUrls
    /\ reqType = ""
    /\ url = NoUrl
    /\ provIdx = 0
    /\ pageUrl = NoUrl
    /\ body = NoBody
    /\ target = NoUrl
    /\ awaited = FALSE
    /\ outcome = Pending
    /\ jars = 0
    /\ fetches = << >>
    /\ extracts = << >>
    /\ consumed = {}
    /\ calls = << >>
    /\ verdict = FALSE
    /\ scraped = ""
    /\ store = << >>
    /\ ids = {}
    /\ asked = NoQuery
    /\ latest = NoMilestone
    /\ saved = NoMilestone

GuardCheck ==
    /\ pc = "guard"
    /\ verdict' = isIpOrLocalhost(siteUrl, reqUrl)
    /\ pc' = "guarded"
    /\ UNCHANGED <<store, ids, asked, latest, saved, scraped, siteUrl, directory, customProviders, reqUrl, reqType, url, provIdx, pageUrl,
                   body, target, awaited, outcome, jars, fetches, extracts, consumed, calls>>

NextGuard == GuardCheck

SpecGuard == InitGuard /\ [][NextGuard]_vars

(***************************************************************************)
(* Vocabulary of the properties.                                           *)
(***************************************************************************)
Done == pc = "done"

IsUnknownProvider(o) ==
    o.kind = "throw" /\ o.errorType = "ValidationError" /\ o.message = "unknownProvider"

\* the unsafe rules of the guard, spelled out on the URL string
UnsafeByRules(u) ==
    \/ ~u.valid
    \/ u.scheme \notin {"http", "https"}
    \/ (~u.www /\ u.name = "localhost")
    \/ (~u.www /\ u.name \in IPv4Names)
    \/ u.name \in ColonNames

SameHost(u, v) ==
    /\ u.www = v.www
    /\ u.name = v.name
    /\ (IF u.port = DefaultPort(u.scheme) THEN 0 ELSE u.port)
         = (IF v.port = DefaultPort(v.scheme) THEN 0 ELSE v.port)

SameHostname(u, v) == u.www = v.www /\ u.name = v.name

Declining == {"false", "null"}

AllProvidersDecline == \A i \in DOMAIN customProviders : customProviders[i] \in Declining

NoOutboundRequest ==
    /\ \A i \in DOMAIN fetches : ~fetches[i].f.dispatched
    /\ extracts = << >>

Invoked(ops) == \E i \in DOMAIN calls : calls[i].op \in ops

Dispatched(stage) == {i \in DOMAIN fetches : fetches[i].stage = stage /\ fetches[i].f.dispatched}

\* C1 (as stated): a call for a URL that is unsafe by the guard rules and is not
\* the site host ends with the 'unknown provider' ValidationError, and no
\* outbound request is issued at any point of the resolution.
C1_UnsafeNeverFetched_Original ==
    (pc # "idle" /\ UnsafeByRules(reqUrl) /\ (reqUrl.valid => ~SameHost(reqUrl, siteUrl)))
      => /\ NoOutboundRequest
         /\ Done => IsUnknownProvider(outcome)

\* C1 (amended): for a URL that is unsafe by the guard rules and is not the site
\* host, the call ends with 'unknown provider' and the resolver issues no
\* outbound request, provided the URL is unparseable, or every registered
\* custom provider declines and (the type is 'bookmark' or the known-provider
\* matcher finds no match for the URL).
C1_UnsafeNeverFetched ==
    (/\ pc # "idle"
     /\ UnsafeByRules(reqUrl)
     /\ reqUrl.valid => ~SameHost(reqUrl, siteUrl)
     /\ reqUrl.valid =>
          /\ AllProvidersDecline
          /\ reqType = "bookmark"
               \/ \A i \in 1..4 : testUrls(Trim(reqUrl))[i] \notin directory)
      => /\ NoOutboundRequest
         /\ Done => IsUnknownProvider(outcome)

\* a parseable unsafe URL went through declining providers and was rejected by the guard
C1_Witness ==
    /\ Done
    /\ reqUrl.valid
    /\ UnsafeByRules(reqUrl)
    /\ ~SameHost(reqUrl, siteUrl)
    /\ Len(customProviders) > 0
    /\ AllProvidersDecline
    /\ reqType = ""
    /\ Len(fetches) = 1
    /\ ~fetches[1].f.dispatched
    /\ IsUnknownProvider(outcome)

\* C2 (as stated): every network read - the page HTML fetch, the JSON fetch of
\* a discovered link and the known-provider extraction - goes through the
\* guard: the requested URL is checked before dispatch, the resolved URL
\* before the response is used.
C2_EveryReadGuarded_Original ==
    /\ \A i \in DOMAIN fetches :
         LET f == fetches[i].f
         IN  /\ f.dispatched => f.asked \in f.checks /\ ~isIpOrLocalhost(siteUrl, f.asked)
             /\ f.settled.kind = "return"
                  => f.answer.url \in f.checks /\ ~isIpOrLocalhost(siteUrl, f.answer.url)
    /\ \A c \in consumed :
         \E i \in DOMAIN fetches :
            fetches[i].f.answer = c.answer /\ fetches[i].f.settled.kind = "return"
    /\ \A k \in DOMAIN extracts :
         \E i \in DOMAIN fetches : extracts[k] \in fetches[i].f.checks

\* C2 (amended): the page HTML fetch and the JSON fetch of a discovered oEmbed
\* link go through the guard - the requested URL is checked before the request
\* is dispatched and the resolved URL before the response is used; the
\* known-provider extraction is made by the extraction library, outside the
\* guard.
C2_EveryReadGuarded ==
    /\ \A i \in DOMAIN fetches :
         LET f == fetches[i].f
         IN  /\ f.dispatched => f.asked \in f.checks /\ ~isIpOrLocalhost(siteUrl, f.asked)
             /\ f.settled.kind = "return"
                  => f.answer.url \in f.checks /\ ~isIpOrLocalhost(siteUrl, f.answer.url)
    /\ \A c \in consumed :
         \E i \in DOMAIN fetches :
            fetches[i].f.answer = c.answer /\ fetches[i].f.settled.kind = "return"

\* both a page and a discovered link were fetched and read
C2_Witness ==
    /\ \E c \in consumed : c.stage = "html"
    /\ \E c \in consumed : c.stage = "json"
    /\ Dispatched("json") # {}

\* C3: when a fetch was dispatched for a safe URL and the guard judges the
\* resolved URL of the response unsafe, the fetch fails with the 'unknown
\* provider' ValidationError and the response is read by no later stage; when
\* it was the page fetch or the fetch of the discovered link, it is the last
\* fetch of the call, which ends with that error and returns no result.
C3_RedirectRejected ==
    \A i \in DOMAIN fetches :
       LET f == fetches[i].f
       IN  (/\ f.dispatched
            /\ ~f.answer.failed
            /\ ~isIpOrLocalhost(siteUrl, f.asked)
            /\ isIpOrLocalhost(siteUrl, f.answer.url))
             => /\ IsUnknownProvider(f.settled)
                /\ \A c \in consumed : c.answer # f.answer
                /\ fetches[i].stage \in {"html", "json"}
                     => /\ Done
                        /\ outcome = f.settled
                        /\ i = Len(fetches)
                        /\ ~Invoked({"fetchBookmarkData"})
                        /\ fetches[i].stage = "html" => ~Invoked({"fetchOembedData"})

\* a page fetch was redirected to an unsafe URL
C3_Witness ==
    \E i \in DOMAIN fetches :
       /\ fetches[i].stage = "html"
       /\ fetches[i].f.dispatched
       /\ ~fetches[i].f.answer.failed
       /\ UnsafeByRules(fetches[i].f.answer.url)
       /\ ~SameHost(fetches[i].f.answer.url, siteUrl)

\* C4: for a parseable site URL, the guard answers 'safe' for every parseable
\* URL whose host (hostname and port) equals the host of the site URL, whatever
\* its hostname or scheme; a URL with the hostname of the site URL and another
\* port is judged by the unsafe rules alone.
C4_SelfHostException ==
    (pc = "guarded" /\ siteUrl.valid /\ reqUrl.valid)
      => /\ SameHost(reqUrl, siteUrl) => verdict = FALSE
         /\ (SameHostname(reqUrl, siteUrl) /\ ~SameHost(reqUrl, siteUrl))
              => verdict = UnsafeByRules(reqUrl)

\* the site runs on localhost:2368 and a non-http URL of that host is judged safe
C4_Witness ==
    /\ pc = "guarded"
    /\ siteUrl.valid
    /\ reqUrl.valid
    /\ SameHost(reqUrl, siteUrl)
    /\ reqUrl.name = "localhost"
    /\ reqUrl.scheme = "ftp"
    /\ verdict = FALSE

\* C5 (as stated): the only error the call lets through as it was raised is the
\* 'insufficient metadata' ValidationError of the bookmark extractor; every
\* other exception is replaced by the 'unknown provider' ValidationError that
\* the catch block makes for the requested URL.  Stated for the calls with no
\* custom provider registered, where every exception is raised by the resolver
\* and its libraries.
C5_OnlyInsufficientMetadataVerbatim ==
    (Done /\ outcome.kind = "throw" /\ customProviders = << >>)
      => \/ outcome = insufficientMetadata(url) /\ Invoked({"fetchBookmarkData"})
         \/ outcome = unknownProvider(url)

\* C6 (as stated): every call ends by returning a result or by failing with a
\* ValidationError; no InternalServerError and no other exception reaches the
\* caller.
C6_ValidationErrorOrResult ==
    Done => \/ outcome.kind = "return"
            \/ outcome.kind = "throw" /\ outcome.errorType = "ValidationError"

BookmarkFields == {"version", "type", "url", "metadata"}

MetadataKeys == {"url", "title", "description", "author", "publisher", "thumbnail", "icon"}

Whitelisted(v) ==
    IF v.type = "bookmark"
    THEN v.fields \subseteq BookmarkFields /\ {q[1] : q \in v.meta} \subseteq MetadataKeys
    ELSE v.fields \subseteq knownFields

\* C7 (as stated): every result the call returns, on any path, holds only
\* fields of its payload's whitelist.
C7_OnlyWhitelistedFields_Original ==
    (Done /\ outcome.kind = "return") => Whitelisted(outcome.value)

\* C7 (amended): every result that comes from in-page oEmbed discovery holds
\* only the 14 whitelisted oEmbed fields, and every bookmark payload only
\* version, type, url and metadata; the result of a custom provider and the
\* result of the known-provider extraction are returned as they are,
\* unfiltered.
C7_OnlyWhitelistedFields ==
    (Done /\ outcome.kind = "return" /\ outcome.value.source \in {"discovery", "bookmark"})
      => Whitelisted(outcome.value)

\* a discovered endpoint answered with fields outside the whitelist and a payload was returned
C7_Witness ==
    /\ Done
    /\ outcome.kind = "return"
    /\ outcome.value.source = "discovery"
    /\ \E c \in consumed :
         /\ c.stage = "json"
         /\ c.answer.json # "null"
         /\ ~(FieldsOf(JsonBody(c.answer.json)) \subseteq knownFields)

\* C8 (as stated): every ValidationError that reaches the caller carries the
\* requested URL as its context (as given, or with its surrounding whitespace
\* trimmed), also when the failure arose while another URL was fetched.
\* Stated for the calls with no custom provider registered, where every
\* ValidationError is made by the resolver itself.
C8_ContextIsRequestedUrl ==
    (/\ Done
     /\ outcome.kind = "throw"
     /\ outcome.errorType = "ValidationError"
     /\ customProviders = << >>)
      => outcome.context \in {reqUrl, Trim(reqUrl)}

LaterStages == {"findUrlWithProvider", "knownProvider", "fetchPageHtml", "fetchOembedData",
                "fetchPageJson", "fetchBookmarkData"}

\* C9: when the URL parses, a registered provider supports it and answers a
\* fixed non-null result, and every provider registered before it declined,
\* the call returns exactly that result for any requested type, and neither
\* the matcher, nor the extraction, nor a page fetch, nor discovery, nor the
\* bookmark extractor is invoked.
C9_ProviderResultWins ==
    \A k \in DOMAIN customProviders :
       (/\ pc # "idle"
        /\ reqUrl.valid
        /\ customProviders[k] = "data"
        /\ \A j \in 1..(k - 1) : customProviders[j] \in Declining)
         => /\ ~Invoked(LaterStages)
            /\ fetches = << >>
            /\ extracts = << >>
            /\ jars = 0
            /\ Done => outcome = Ret(ProviderData(k))

\* a bookmark request for a known provider's URL was settled by the second provider
C9_Witness ==
    /\ Done
    /\ reqType = "bookmark"
    /\ customProviders = <<"null", "data">>
    /\ outcome = Ret(ProviderData(2))
    /\ findUrlWithProvider(directory, url).provider

\* C10: for a bookmark request whose providers all declined, the
\* known-provider matcher, the extraction and oEmbed discovery are never
\* invoked; the page is fetched at most once and nothing else is; and when the
\* fetch succeeded, the bookmark extractor ran on the fetched HTML with the
\* requested URL (trimmed, not the resolved one) and the call settled as the
\* extractor did.
C10_BookmarkOnly ==
    (pc # "idle" /\ reqType = "bookmark" /\ reqUrl.valid /\ AllProvidersDecline)
      => /\ ~Invoked({"findUrlWithProvider", "knownProvider", "fetchOembedData", "fetchPageJson"})
         /\ extracts = << >>
         /\ Len(fetches) <= 1
         /\ \A i \in DOMAIN fetches : fetches[i].stage = "html" /\ fetches[i].f.asked = Trim(reqUrl)
         /\ (Done /\ Len(fetches) = 1 /\ fetches[1].f.settled.kind = "return")
              => /\ calls[Len(calls)] = Call("fetchBookmarkData", Trim(reqUrl), 0)
                 /\ body = fetchPageHtml(fetches[1].f.answer).body
                 /\ \E s \in Scrapes :
                      outcome = IF s = "throws" THEN unknownProvider(Trim(reqUrl))
                                ELSE IF s = "untitled" THEN insufficientMetadata(Trim(reqUrl))
                                ELSE Ret([source |-> "bookmark", type |-> "bookmark", version |-> "1.0",
                                          fields |-> BookmarkFields,
                                          meta |-> outcome.value.meta,
                                          url |-> Trim(reqUrl), by |-> 0])
         /\ (Done /\ ~(Len(fetches) = 1 /\ fetches[1].f.settled.kind = "return"))
              => ~Invoked({"fetchBookmarkData"}) /\ IsUnknownProvider(outcome)

\* a padded bookmark request was redirected to a known provider's URL and a bookmark came back
C10_Witness ==
    /\ Done
    /\ reqType = "bookmark"
    /\ reqUrl.pad
    /\ Len(customProviders) > 0
    /\ AllProvidersDecline
    /\ pageUrl # url
    /\ findUrlWithProvider(directory, pageUrl).provider
    /\ outcome.kind = "return"
    /\ outcome.value.type = "bookmark"
    /\ outcome.value.url = Trim(reqUrl)

\* the JSON bodies that lack a type or version, name a type outside the four,
\* or lack a field their type requires
NothingBodies == {"photoNoUrl", "videoNoWidth", "badType", "noVersion"}

\* fetchOembedData was called and came back without a payload and without throwing
DiscoveryYieldsNothing ==
    /\ Invoked({"fetchOembedData"})
    /\ \/ body.link # "invalid" /\ ~Invoked({"fetchPageJson"}) /\ pc # "fetchPageJson"
       \/ \E c \in consumed : c.stage = "json" /\ c.answer.json \in NothingBodies

\* the body that fetchPageHtml made of the page answer read by the call
FetchedBody(b) ==
    \E c \in consumed : c.stage = "html" /\ b = fetchPageHtml(c.answer).body

\* C11: when no card type is requested and oEmbed discovery yields no payload
\* without throwing, the bookmark extractor is the next and last stage, it runs
\* on the requested URL and the HTML already fetched, and the call settles as
\* the extractor does; when a type other than 'bookmark' was requested and
\* discovery yields nothing, the call ends with 'unknown provider' and the
\* extractor is not run; outside a bookmark request the extractor runs in no
\* other case.
C11_BookmarkFallback ==
    /\ (DiscoveryYieldsNothing /\ reqType = "")
         => /\ pc \in {"fetchBookmarkData", "done"}
            /\ Done => /\ calls[Len(calls)] = Call("fetchBookmarkData", Trim(reqUrl), 0)
                       /\ FetchedBody(body)
                       /\ outcome = fetchBookmarkData(Trim(reqUrl), scraped)
    /\ (DiscoveryYieldsNothing /\ reqType # "")
         => /\ Done
            /\ outcome = unknownProvider(Trim(reqUrl))
            /\ ~Invoked({"fetchBookmarkData"})
    /\ (Invoked({"fetchBookmarkData"}) /\ reqType # "bookmark")
         => reqType = "" /\ DiscoveryYieldsNothing

\* a photo answer without url was read, and the call returned the bookmark of the page
C11_Witness ==
    /\ Done
    /\ reqType = ""
    /\ \E c \in consumed : c.stage = "json" /\ c.answer.json = "photoNoUrl"
    /\ outcome.kind = "return"
    /\ outcome.value.source = "bookmark"

\* C12: when the page was fetched and the scraper derives no title, the call -
\* a bookmark request or the fallback of a request without type - fails with
\* the 'insufficient metadata' ValidationError of the extractor for the
\* requested URL, not with 'unknown provider'; no bookmark without a title is
\* ever returned.
C12_UntitledIsInsufficientMetadata ==
    /\ (Done /\ scraped = "untitled")
         => /\ reqType \in {"", "bookmark"}
            /\ outcome = Err("ValidationError", "insufficientMetadata", Trim(reqUrl))
            /\ ~IsUnknownProvider(outcome)
    /\ (Done /\ outcome.kind = "return" /\ outcome.value.type = "bookmark")
         => \E q \in outcome.value.meta : q[1] = "title" /\ q[2] # "undefined"

\* the fallback of a request without type scraped a page without title
C12_Witness ==
    /\ Done
    /\ reqType = ""
    /\ awaited
    /\ scraped = "untitled"
    /\ outcome.kind = "throw"
    /\ outcome.message = "insufficientMetadata"

\* C13: every bookmark payload has version '1.0', type 'bookmark' and the
\* requested URL (trimmed; not the URL the page fetch resolved to) as url; its
\* metadata holds the scraped image under 'thumbnail' and the scraped logo
\* under 'icon', has no key 'image' and no key 'logo', and carries every other
\* scraped field over unchanged.
C13_BookmarkShape ==
    (Done /\ outcome.kind = "return" /\ outcome.value.source = "bookmark")
      => LET v == outcome.value
             scraperResponse == ScraperResponse(scraped)
         IN  /\ v.version = "1.0"
             /\ v.type = "bookmark"
             /\ v.url = Trim(reqUrl)
             /\ v.fields = {"version", "type", "url", "metadata"}
             /\ <<"thumbnail", ValueOf(scraperResponse, "image")>> \in v.meta
             /\ <<"icon", ValueOf(scraperResponse, "logo")>> \in v.meta
             /\ \A q \in v.meta : q[1] \notin {"image", "logo"}
             /\ {q \in v.meta : q[1] \notin {"thumbnail", "icon"}}
                  = {q \in scraperResponse : q[1] \notin {"image", "logo"}}
             /\ \A q, r \in v.meta : q[1] = r[1] => q = r

\* a page that redirected elsewhere was scraped with image and logo, and its bookmark returned
C13_Witness ==
    /\ Done
    /\ outcome.kind = "return"
    /\ outcome.value.source = "bookmark"
    /\ scraped = "titled"
    /\ pageUrl # url
    /\ <<"thumbnail", "I">> \in outcome.value.meta
    /\ <<"icon", "L">> \in outcome.value.meta

ProviderOps == {"canSupportRequest", "getOEmbedData"}

\* the providers are consulted in registration order: every provider before
\* the one consulted was consulted and declined, getOEmbedData follows the
\* canSupportRequest of the same provider, a provider that answers false is
\* never asked for data, and nothing follows the first result that is not null
C14_RegistrationOrder ==
    /\ \A i \in DOMAIN calls :
         calls[i].op \in ProviderOps
           => /\ calls[i].idx \in DOMAIN customProviders
              /\ \A k \in 1..(calls[i].idx - 1) :
                   /\ customProviders[k] \in Declining
                   /\ \E j \in 1..(i - 1) : calls[j] = Call("canSupportRequest", url, k)
              /\ \A j \in 1..(i - 1) :
                   calls[j].op \in ProviderOps => calls[j].idx <= calls[i].idx
              /\ calls[i].op = "getOEmbedData"
                   => /\ i > 1
                      /\ calls[i - 1] = Call("canSupportRequest", url, calls[i].idx)
                      /\ customProviders[calls[i].idx] # "false"
    /\ \A i, j \in DOMAIN calls : (i # j /\ calls[i].op \in ProviderOps) => calls[i] # calls[j]
    /\ \A k \in DOMAIN customProviders :
         (pc # "idle" /\ reqUrl.valid /\ customProviders[k] \in {"data", "undefined"}
            /\ \A j \in 1..(k - 1) : customProviders[j] \in Declining)
           => \A i \in DOMAIN calls : calls[i].op \in ProviderOps /\ calls[i].idx <= k

\* C14 (as stated): custom providers are tried in registration order - one
\* whose canHandle answers false is skipped without its fetch being called,
\* one whose fetch answers null is skipped, and after the first non-null
\* result no later provider is invoked - and the call never completes
\* successfully with an empty (null or undefined) result.
C14_ProvidersInOrder ==
    /\ C14_RegistrationOrder
    /\ (Done /\ outcome.kind = "return") => outcome.value # NoPayload

Throwing == {"canThrows", "getThrows", "getThrowsValidation"}

\* provider k is the first that does not decline, and it throws
FirstToThrow(k) ==
    /\ pc # "idle"
    /\ reqUrl.valid
    /\ customProviders[k] \in Throwing
    /\ \A j \in 1..(k - 1) : customProviders[j] \in Declining

\* nothing is attempted after provider k
NothingAfterProvider(k) ==
    /\ pc \in {"providers", "done"}
    /\ ~Invoked(LaterStages)
    /\ \A i \in DOMAIN calls : calls[i].idx <= k
    /\ fetches = << >>
    /\ extracts = << >>
    /\ jars = 0

\* a provider that throws ends the loop: no later provider is asked and no
\* later stage is attempted
C15_NothingAfterThrow ==
    \A k \in DOMAIN customProviders : FirstToThrow(k) => NothingAfterProvider(k)

\* C15 (as stated): if a custom provider's canHandle or fetch throws, the call
\* ends with the 'unknown provider' ValidationError, and no later provider, no
\* known-provider match, no page fetch, no discovery and no bookmark extraction
\* is attempted.
C15_ProviderThrowFails ==
    \A k \in DOMAIN customProviders :
       FirstToThrow(k)
         => /\ NothingAfterProvider(k)
            /\ Done => IsUnknownProvider(outcome)

\* the request is not for a bookmark, every provider declined, and the matcher
\* finds a provider for a variant of the requested URL
MatchesRequested ==
    /\ pc # "idle"
    /\ reqUrl.valid
    /\ reqType # "bookmark"
    /\ AllProvidersDecline
    /\ findUrlWithProvider(directory, Trim(reqUrl)).provider

\* on a match of the requested URL the extraction is made for the matched
\* variant and nothing is fetched
C16_NoPageFetch ==
    MatchesRequested
      => /\ fetches = << >>
         /\ jars = 0
         /\ ~Invoked({"fetchPageHtml", "fetchOembedData", "fetchPageJson", "fetchBookmarkData"})
         /\ \A i \in DOMAIN extracts :
              i = 1 /\ extracts[i] = findUrlWithProvider(directory, Trim(reqUrl)).url
         /\ Done => extracts # << >>

\* C16 (as stated): when the type is not 'bookmark', every provider declined
\* and the matcher matches the requested URL, the call returns the
\* known-provider extraction of the matched variant and never fetches the page;
\* if the extraction fails, the call ends with 'unknown provider', without
\* falling back to discovery or the bookmark.
C16_KnownProviderFirst ==
    MatchesRequested
      => /\ C16_NoPageFetch
         /\ Done => \/ outcome = knownProvider(findUrlWithProvider(directory, Trim(reqUrl)).url, "data")
                    \/ IsUnknownProvider(outcome)

\* the positions of the log at which the matcher was run
MatcherRuns == {i \in DOMAIN calls : calls[i].op = "findUrlWithProvider"}

\* C17: for a request other than a bookmark whose page fetch succeeded, the
\* matcher is run on the resolved URL, right after the fetch, exactly when the
\* resolved URL differs from the requested one; on a match the extraction of
\* the matched URL is made and is the outcome of the call, and neither
\* discovery nor the bookmark extractor runs; when the two URLs are equal the
\* matcher is not run a second time and no extraction is made.
C17_RedirectRematch ==
    (reqType # "bookmark" /\ \E c \in consumed : c.stage = "html" /\ c.answer.url = pageUrl)
      => LET requested == Trim(reqUrl)
             rerun == \E i \in MatcherRuns :
                         /\ i > 1
                         /\ calls[i] = Call("findUrlWithProvider", pageUrl, 0)
                         /\ calls[i - 1] = Call("fetchPageHtml", requested, 0)
             m == findUrlWithProvider(directory, pageUrl)
         IN  /\ rerun <=> pageUrl # requested
             /\ Cardinality(MatcherRuns) = IF pageUrl # requested THEN 2 ELSE 1
             /\ (pageUrl # requested /\ m.provider)
                  => /\ pc \in {"knownProvider", "done"}
                     /\ ~Invoked({"fetchOembedData", "fetchPageJson", "fetchBookmarkData"})
                     /\ Len(fetches) = 1
                     /\ Done => /\ extracts = <<m.url>>
                                /\ calls[Len(calls)] = Call("knownProvider", m.url, 0)
                                /\ \E x \in ExtractAnswers : outcome = knownProvider(m.url, x)
             /\ ~(pageUrl # requested /\ m.provider)
                  => extracts = << >> /\ ~Invoked({"knownProvider"})

\* a page redirected to a known provider's URL and the extraction of that URL was returned
C17_Witness ==
    /\ Done
    /\ reqType = "embed"
    /\ pageUrl # url
    /\ Len(fetches) = 1
    /\ outcome.kind = "return"
    /\ outcome.value.source = "known"
    /\ outcome.value.url = findUrlWithProvider(directory, pageUrl).url

\* discovery ran on a page whose oEmbed link holds wp-json/oembed
WpLinkDiscovered ==
    /\ Invoked({"fetchOembedData"})
    /\ body.link = "wp"

LinkFetched == pc = "fetchPageJson" \/ Invoked({"fetchPageJson"})

\* a wp-json link is deferred when no card type was requested
C18_DeferredWithoutType ==
    (WpLinkDiscovered /\ reqType = "") => ~LinkFetched

\* C18 (as stated): a discovered link that holds 'wp-json/oembed' is deferred
\* exactly when the caller requested no card type; when a card type was
\* requested explicitly, the link is fetched and validated like any other.
C18_WpJsonDeferral ==
    WpLinkDiscovered => (LinkFetched <=> reqType # "")

\* what the claim asks of a JSON answer: non-empty type and version, a type of
\* the four, url for a photo, html, width and height for a video or rich answer
PayloadBody(j) ==
    /\ j # "null"
    /\ LET b == JsonBody(j)
       IN  /\ b.type # ""
           /\ b.version # ""
           /\ b.type \in {"photo", "video", "link", "rich"}
           /\ b.type = "photo" => "url" \in b.has
           /\ b.type \in {"video", "rich"} => {"html", "width", "height"} \subseteq b.has

\* the JSON answers of the discovered link that the call read
JsonRead == {c.answer.json : c \in {d \in consumed : d.stage = "json"}}

\* the call went on as it does when fetchOembedData returns undefined
WentOnWithNothing ==
    /\ reqType = "" => pc \in {"fetchBookmarkData", "done"} /\ (Done => Invoked({"fetchBookmarkData"}))
    /\ reqType # "" => Done /\ outcome = unknownProvider(url)

\* a payload of discovery comes from an answer that meets the requirements, and
\* a page without link makes discovery return nothing without a request
C19_PayloadOnlyIfValid ==
    /\ (Done /\ outcome.kind = "return" /\ outcome.value.source = "discovery")
         => /\ \E j \in JsonRead : PayloadBody(j)
            /\ outcome.value.type \in {"photo", "video", "link", "rich"}
            /\ outcome.value.version # ""
    /\ (Invoked({"fetchOembedData"}) /\ body.link = "none")
         => /\ Len(fetches) = 1
            /\ ~Invoked({"fetchPageJson"})
            /\ WentOnWithNothing
    /\ \A j \in JsonRead : (j # "null" /\ ~PayloadBody(j)) => WentOnWithNothing

\* C19 (as stated): fetchOembedData returns a payload only when the JSON has a
\* non-empty type and version, a type among photo, video, link and rich, a url
\* for a photo and html, width and height for a video or rich answer; in every
\* other case where the JSON was fetched it returns nothing and raises no
\* error; and when the HTML has no oEmbed link it returns nothing without a
\* request.
C19_DiscoveryValidation ==
    /\ C19_PayloadOnlyIfValid
    /\ \A j \in JsonRead : ~PayloadBody(j) => WentOnWithNothing

\* the calls of the guarded fetch that the resolver made for a stage
Requests(stage) == {i \in DOMAIN fetches : fetches[i].stage = stage}

\* C20: no fetch is retried - the page is requested at most once and the
\* discovered link at most once - and once the page fetch or the link fetch
\* fails (the network fails, or the guard rejects the URL or the redirect), it
\* is the last request of the call, which ends with the 'unknown provider'
\* ValidationError; no extraction and no bookmark extraction follows, and none
\* of discovery after a failed page fetch.
C20_NoRetryNoFallback ==
    /\ Cardinality(Requests("html")) <= 1
    /\ Cardinality(Requests("json")) <= 1
    /\ \A i, j \in DOMAIN fetches :
         (i < j /\ fetches[j].stage = "json") => fetches[i].f.asked # fetches[j].f.asked
    /\ \A i \in Requests("html") \cup Requests("json") :
         fetches[i].f.settled.kind = "throw"
           => /\ i = Len(fetches)
              /\ Done
              /\ IsUnknownProvider(outcome)
              /\ extracts = << >>
              /\ ~Invoked({"knownProvider", "fetchBookmarkData"})
              /\ fetches[i].stage = "html" => ~Invoked({"fetchOembedData", "fetchPageJson"})

\* the fetch of a discovered link failed on the network for a request without type
C20_Witness ==
    /\ Done
    /\ reqType = ""
    /\ Len(fetches) = 2
    /\ fetches[2].stage = "json"
    /\ fetches[2].f.dispatched
    /\ fetches[2].f.answer.failed
    /\ outcome = unknownProvider(url)
    /\ ~Invoked({"fetchBookmarkData"})

(***************************************************************************)
(* Concurrent calls of fetchOembedDataFromUrl on one OEmbed instance.  The *)
(* instance holds config, customProviders and externalRequest; everything  *)
(* else a call uses is a parameter or a local of that invocation, so here  *)
(* pc, reqUrl, reqType, url, provIdx, pageUrl, body, target, awaited and   *)
(* outcome are functions of the call.  Calls interleave at their awaits.   *)
(* fetches records, for every call of this.externalRequest, the call that  *)
(* made it and the cookie jar of its request configuration (0: none).      *)
(***************************************************************************)
MaxCalls == 2

CallIds == 1..MaxCalls

ConcUrls == {Http("example.com"), Http("youtube.com")}

ConcTypes == {"", "bookmark"}

ConcKinds == {"requests"}

ConcHtmlAnswers(u) ==
    {NoAnswer} \cup {Answer(FALSE, u, "utf8", l, "") : l \in {"none", "plain"}}

ConcJsonAnswers(u) ==
    {NoAnswer} \cup {Answer(FALSE, u, "", "", j) : j \in {"photo", "photoNoUrl"}}

InitConc ==
    /\ siteUrl = Http("ghost.site")
    /\ directory = DirPlain
    /\ customProviders = << >>
    /\ pc = [c \in CallIds |-> "idle"]
    /\ reqUrl = [c \in CallIds |-> NoUrl]
    /\ reqType = [c \in CallIds |-> ""]
    /\ url = [c \in CallIds |-> NoUrl]
    /\ provIdx = [c \in CallIds |-> 0]
    /\ pageUrl = [c \in CallIds |-> NoUrl]
    /\ body = [c \in CallIds |-> NoBody]
    /\ target = [c \in CallIds |-> NoUrl]
    /\ awaited = [c \in CallIds |-> FALSE]
    /\ outcome = [c \in CallIds |-> Pending]
    /\ jars = 0
    /\ fetches = << >>
    /\ extracts = << >>
    /\ consumed = {}
    /\ calls = << >>
    /\ verdict = FALSE
    /\ scraped = ""
    /\ store = << >>
    /\ ids = {}
    /\ asked = NoQuery
    /\ latest = NoMilestone
    /\ saved = NoMilestone

\* registerProvider(provider), at any moment
ConcRegisterProvider(kind) ==
    /\ Len(customProviders) < MaxProviders
    /\ customProviders' = Append(customProviders, kind)
    /\ UNCHANGED <<store, ids, asked, latest, saved, verdict, scraped, siteUrl, directory, pc, reqUrl, reqType, url, provIdx, pageUrl,
                   body, target, awaited, outcome, jars, fetches, extracts, consumed, calls>>

\* a call begins: new URL(url), url.trim()
ConcStart(c, u, t) ==
    /\ pc[c] = "idle"
    /\ reqUrl' = [reqUrl EXCEPT ![c] = u]
    /\ reqType' = [reqType EXCEPT ![c] = t]
    /\ url' = [url EXCEPT ![c] = Trim(u)]
    /\ provIdx' = [provIdx EXCEPT ![c] = 1]
    /\ pc' = [pc EXCEPT ![c] = "providers"]
    /\ UNCHANGED <<store, ids, asked, latest, saved, verdict, scraped, siteUrl, directory, customProviders, pageUrl, body, target,
                   awaited, outcome, jars, fetches, extracts, consumed, calls>>

\* the for loop of call c reads this.customProviders as it is now
ConcInLoop(c) == pc[c] = "providers" /\ provIdx[c] <= Len(customProviders)

\* a provider calls the externalRequest handed to it, with no cookie jar of the instance
ConcProviderRequests(c) ==
    /\ ConcInLoop(c)
    /\ customProviders[provIdx[c]] = "requests"
    /\ \E f \in externalRequest(siteUrl, ProviderApi, {NoAnswer, Answer(FALSE, ProviderApi, "", "", "photo")}) :
         /\ fetches' = Append(fetches, [call |-> c, stage |-> "provider", jar |-> 0, f |-> f])
         /\ outcome' = [outcome EXCEPT ![c] = IF f.settled.kind = "return"
                                               THEN Ret(ProviderData(provIdx[c]))
                                               ELSE Catch(f.settled, url[c])]
    /\ pc' = [pc EXCEPT ![c] = "done"]
    /\ UNCHANGED <<store, ids, asked, latest, saved, verdict, scraped, siteUrl, directory, customProviders, reqUrl, reqType, url,
                   provIdx, pageUrl, body, target, awaited, jars, extracts, consumed, calls>>

ConcAfterProviders(c) ==
    /\ pc[c] = "providers"
    /\ provIdx[c] > Len(customProviders)
    /\ LET m == matchRequested(directory, url[c], reqType[c])
       IN  IF m.provider
           THEN pc' = [pc EXCEPT ![c] = "knownProvider"] /\ target' = [target EXCEPT ![c] = m.url]
           ELSE pc' = [pc EXCEPT ![c] = "fetchPageHtml"] /\ target' = target
    /\ UNCHANGED <<store, ids, asked, latest, saved, verdict, scraped, siteUrl, directory, customProviders, reqUrl, reqType, url,
                   provIdx, pageUrl, body, awaited, outcome, jars, fetches, extracts, consumed, calls>>

ConcKnownProvider(c) ==
    /\ pc[c] = "knownProvider"
    /\ \E x \in ExtractAnswers :
         outcome' = [outcome EXCEPT ![c] = returnPromise(knownProvider(target[c], x), url[c])]
    /\ pc' = [pc EXCEPT ![c] = "done"]
    /\ UNCHANGED <<store, ids, asked, latest, saved, verdict, scraped, siteUrl, directory, customProviders, reqUrl, reqType, url,
                   provIdx, pageUrl, body, target, awaited, jars, fetches, extracts, consumed, calls>>

ConcFetchPageHtml(c) ==
    /\ pc[c] = "fetchPageHtml"
    /\ \E p \in fetchPage(siteUrl, url[c], ConcHtmlAnswers(url[c]), jars) :
         /\ fetches' = Append(fetches, [call |-> c, stage |-> "html", jar |-> p.jar, f |-> p.f])
         /\ IF p.f.settled.kind = "throw"
            THEN /\ outcome' = [outcome EXCEPT ![c] = Catch(p.f.settled, url[c])]
                 /\ pc' = [pc EXCEPT ![c] = "done"]
                 /\ UNCHANGED <<pageUrl, body, target, awaited>>
            ELSE LET page == fetchPageHtml(p.f.answer)
                     m == matchResolved(directory, url[c], page.url, reqType[c])
                 IN  /\ pageUrl' = [pageUrl EXCEPT ![c] = page.url]
                     /\ body' = [body EXCEPT ![c] = page.body]
                     /\ outcome' = outcome
                     /\ IF reqType[c] = "bookmark"
                        THEN /\ pc' = [pc EXCEPT ![c] = "fetchBookmarkData"]
                             /\ awaited' = [awaited EXCEPT ![c] = FALSE]
                             /\ target' = target
                        ELSE /\ awaited' = awaited
                             /\ IF m.provider
                                THEN /\ pc' = [pc EXCEPT ![c] = "knownProvider"]
                                     /\ target' = [target EXCEPT ![c] = m.url]
                                ELSE /\ pc' = [pc EXCEPT ![c] = "fetchOembedData"]
                                     /\ target' = target
    /\ jars' = jars + 1
    /\ UNCHANGED <<store, ids, asked, latest, saved, verdict, scraped, siteUrl, directory, customProviders, reqUrl, reqType, url,
                   provIdx, extracts, consumed, calls>>

\* what follows the data of fetchOembedData in call c
ConcAfterDiscovery(c, data) ==
    IF data = NoPayload /\ reqType[c] = ""
    THEN /\ pc' = [pc EXCEPT ![c] = "fetchBookmarkData"]
         /\ awaited' = [awaited EXCEPT ![c] = TRUE]
         /\ outcome' = outcome
    ELSE /\ pc' = [pc EXCEPT ![c] = "done"]
         /\ awaited' = awaited
         /\ outcome' = [outcome EXCEPT ![c] = IF data = NoPayload
                                               THEN unknownProvider(url[c]) ELSE Ret(data)]

ConcFetchOembedData(c) ==
    /\ pc[c] = "fetchOembedData"
    /\ LET d == discoverLink(body[c].link, cardTypeArgument(reqType[c]))
       IN  CASE d = "throw" ->
                  /\ outcome' = [outcome EXCEPT ![c] = Catch(unknownProvider(url[c]), url[c])]
                  /\ pc' = [pc EXCEPT ![c] = "done"]
                  /\ UNCHANGED <<target, awaited>>
             [] d = "nothing" ->
                  /\ ConcAfterDiscovery(c, NoPayload)
                  /\ target' = target
             [] OTHER ->
                  /\ pc' = [pc EXCEPT ![c] = "fetchPageJson"]
                  /\ target' = [target EXCEPT ![c] = oembedUrl(body[c].link)]
                  /\ UNCHANGED <<outcome, awaited>>
    /\ UNCHANGED <<store, ids, asked, latest, saved, verdict, scraped, siteUrl, directory, customProviders, reqUrl, reqType, url,
                   provIdx, pageUrl, body, jars, fetches, extracts, consumed, calls>>

ConcFetchPageJson(c) ==
    /\ pc[c] = "fetchPageJson"
    /\ \E p \in fetchPage(siteUrl, target[c], ConcJsonAnswers(target[c]), jars) :
         /\ fetches' = Append(fetches, [call |-> c, stage |-> "json", jar |-> p.jar, f |-> p.f])
         /\ IF p.f.settled.kind = "throw"
            THEN /\ outcome' = [outcome EXCEPT ![c] = Catch(p.f.settled, url[c])]
                 /\ pc' = [pc EXCEPT ![c] = "done"]
                 /\ awaited' = awaited
            ELSE LET v == validateOembed(p.f.answer.json, url[c])
                 IN  IF v.kind = "throw"
                     THEN /\ outcome' = [outcome EXCEPT ![c] = Catch(v, url[c])]
                          /\ pc' = [pc EXCEPT ![c] = "done"]
                          /\ awaited' = awaited
                     ELSE ConcAfterDiscovery(c, v.value)
    /\ jars' = jars + 1
    /\ UNCHANGED <<store, ids, asked, latest, saved, verdict, scraped, siteUrl, directory, customProviders, reqUrl, reqType, url,
                   provIdx, pageUrl, body, target, extracts, consumed, calls>>

ConcFetchBookmarkData(c) ==
    /\ pc[c] = "fetchBookmarkData"
    /\ \E s \in {"titled"} :
         outcome' = [outcome EXCEPT ![c] =
                       IF awaited[c]
                       THEN awaitInTry(fetchBookmarkData(url[c], s), url[c])
                       ELSE returnPromise(fetchBookmarkData(url[c], s), url[c])]
    /\ pc' = [pc EXCEPT ![c] = "done"]
    /\ UNCHANGED <<store, ids, asked, latest, saved, verdict, scraped, siteUrl, directory, customProviders, reqUrl, reqType, url,
                   provIdx, pageUrl, body, target, awaited, jars, fetches, extracts, consumed, calls>>

NextConc ==
    \/ \E k \in ConcKinds : ConcRegisterProvider(k)
    \/ \E c \in CallIds, u \in ConcUrls, t \in ConcTypes : ConcStart(c, u, t)
    \/ \E c \in CallIds : ConcProviderRequests(c)
    \/ \E c \in CallIds : ConcAfterProviders(c)
    \/ \E c \in CallIds : ConcKnownProvider(c)
    \/ \E c \in CallIds : ConcFetchPageHtml(c)
    \/ \E c \in CallIds : ConcFetchOembedData(c)
    \/ \E c \in CallIds : ConcFetchPageJson(c)
    \/ \E c \in CallIds : ConcFetchBookmarkData(c)

SpecConc == InitConc /\ [][NextConc]_vars

\* what call c holds of its own
Locals(c) ==
    <<pc[c], reqUrl[c], reqType[c], url[c], provIdx[c], pageUrl[c], body[c], target[c],
      awaited[c], outcome[c]>>

\* the requests that went out with a cookie jar
Jarred == {i \in DOMAIN fetches : fetches[i].jar # 0}

JarPerFetch ==
    /\ \A i, j \in Jarred : i # j => fetches[i].jar # fetches[j].jar
    /\ \A i \in DOMAIN fetches : fetches[i].stage \in {"html", "json"} => i \in Jarred
    /\ \A i \in Jarred : fetches[i].jar \in 1..jars
    /\ Cardinality(Jarred) = jars

\* a step that moves call c leaves the provider list and every other call as they were
Isolated ==
    \A c \in CallIds :
       Locals(c)' # Locals(c)
         => /\ customProviders' = customProviders
            /\ siteUrl' = siteUrl
            /\ \A d \in CallIds \ {c} : Locals(d)' = Locals(d)

\* C21: under any interleaving of concurrent calls on one instance, every
\* page or link fetch goes out with a cookie jar created for it - no jar is
\* passed to two fetches, of different calls or of the same call, and every
\* jar created is used by one fetch - and a step of one call changes neither
\* the provider list nor anything another call holds.
C21_JarPerFetch ==
    [](JarPerFetch) /\ [][Isolated]_vars

\* two calls ran side by side, each fetched a page and a link, and their fetches interleaved
C21_Witness ==
    /\ Len(fetches) = 4
    /\ fetches[1].call # fetches[2].call
    /\ fetches[1].stage = "html" /\ fetches[2].stage = "html"
    /\ fetches[3].stage = "json" /\ fetches[4].stage = "json"
    /\ fetches[3].call # fetches[4].call
    /\ \A i \in 1..4 : fetches[i].f.dispatched
    /\ Cardinality({fetches[i].jar : i \in 1..4}) = 4

(***************************************************************************)
(* The matcher on its own: one call of findUrlWithProvider(url) for a      *)
(* directory and a parseable, unpadded URL string drawn from every         *)
(* combination of the parts.  target and verdict take url and provider of  *)
(* the answer.                                                             *)
(***************************************************************************)
MatchUrls == {u \in GuardUrls : u.valid /\ ~u.pad}

DirAll ==
    {MkUrl(TRUE, FALSE, s, w, "youtube.com", 0, "/") : s \in {"http", "https"}, w \in BOOLEAN}

MatchDirs == {{}, DirPlain, DirLoose, DirAll}

InitMatch ==
    /\ siteUrl = Http("ghost.site")
    /\ directory \in MatchDirs
    /\ customProviders = << >>
    /\ pc = "match"
    /\ reqUrl \in MatchUrls
    /\ reqType = ""
    /\ url = NoUrl
    /\ provIdx = 0
    /\ pageUrl = NoUrl
    /\ body = NoBody
    /\ target = NoUrl
    /\ awaited = FALSE
    /\ outcome = Pending
    /\ jars = 0
    /\ fetches = << >>
    /\ extracts = << >>
    /\ consumed = {}
    /\ calls = << >>
    /\ verdict = FALSE
    /\ scraped = ""
    /\ store = << >>
    /\ ids = {}
    /\ asked = NoQuery
    /\ latest = NoMilestone
    /\ saved = NoMilestone

MatchUrl ==
    /\ pc = "match"
    /\ LET m == findUrlWithProvider(directory, reqUrl)
       IN  target' = m.url /\ verdict' = m.provider
    /\ pc' = "matched"
    /\ UNCHANGED <<store, ids, asked, latest, saved, scraped, siteUrl, directory, customProviders, reqUrl, reqType, url, provIdx,
                   pageUrl, body, awaited, outcome, jars, fetches, extracts, consumed, calls>>

NextMatch == MatchUrl

SpecMatch == InitMatch /\ [][NextMatch]_vars

\* the four variants of the claim: the input without its scheme and www.,
\* behind http://, https://, http://www. and https://www.
StrippedVariants(u) ==
    << [u EXCEPT !.scheme = "http",  !.www = FALSE],
       [u EXCEPT !.scheme = "https", !.www = FALSE],
       [u EXCEPT !.scheme = "http",  !.www = TRUE],
       [u EXCEPT !.scheme = "https", !.www = TRUE] >>

\* the answer is the first of the four variants that the directory knows, or
\* the input itself with nothing found
FirstVariantAnswer ==
    LET t == StrippedVariants(reqUrl)
        hits == {i \in 1..4 : t[i] \in directory}
    IN  IF hits = {}
        THEN target = reqUrl /\ verdict = FALSE
        ELSE /\ verdict = TRUE
             /\ \E i \in hits : target = t[i] /\ \A j \in hits : i <= j

\* for an input whose scheme is http or https the matcher answers as the claim says
C22_HttpInputs ==
    (pc = "matched" /\ reqUrl.scheme \in {"http", "https"}) => FirstVariantAnswer

\* C22 (as stated): the matcher strips a leading scheme and 'www.' from the
\* input, tests http://host, https://host, http://www.host and
\* https://www.host in this order against the directory and answers the first
\* variant that matches, with found = true; when none matches it answers the
\* input unchanged, with found = false.
C22_FourVariants ==
    pc = "matched" => FirstVariantAnswer

(***************************************************************************)
(* The repository on its own: any sequence of save and getLatestByType.    *)
(***************************************************************************)
InitRepo ==
    /\ siteUrl = Http("ghost.site")
    /\ directory = {}
    /\ customProviders = << >>
    /\ pc = "repository"
    /\ reqUrl = NoUrl
    /\ reqType = ""
    /\ url = NoUrl
    /\ provIdx = 0
    /\ pageUrl = NoUrl
    /\ body = NoBody
    /\ target = NoUrl
    /\ awaited = FALSE
    /\ outcome = Pending
    /\ jars = 0
    /\ fetches = << >>
    /\ extracts = << >>
    /\ consumed = {}
    /\ calls = << >>
    /\ verdict = FALSE
    /\ scraped = ""
    /\ store = << >>
    /\ ids = {}
    /\ asked = NoQuery
    /\ latest = NoMilestone
    /\ saved = NoMilestone

Save(milestone) ==
    /\ pc = "repository"
    /\ LET after == save(store, ids, milestone)
       IN  store' = after.store /\ ids' = after.ids
    /\ saved' = milestone
    /\ asked' = NoQuery
    /\ latest' = NoMilestone
    /\ UNCHANGED <<verdict, scraped, siteUrl, directory, customProviders, pc, reqUrl, reqType, url,
                   provIdx, pageUrl, body, target, awaited, outcome, jars, fetches, extracts,
                   consumed, calls>>

GetLatestByType(type, currency) ==
    /\ pc = "repository"
    /\ asked' = [type |-> type, currency |-> currency]
    /\ latest' = getLatestByType(store, type, currency)
    /\ UNCHANGED <<store, ids, saved, verdict, scraped, siteUrl, directory, customProviders, pc, reqUrl,
                   reqType, url, provIdx, pageUrl, body, target, awaited, outcome, jars, fetches,
                   extracts, consumed, calls>>

NextRepo ==
    \/ \E m \in Milestones : Save(m)
    \/ \E t \in MilestoneTypes, c \in Currencies \cup {"undefined"} : GetLatestByType(t, c)

SpecRepo == InitRepo /\ [][NextRepo]_vars

\* the stored milestones that a query for type and currency is about
Candidates(type, currency) ==
    {i \in DOMAIN store :
        /\ store[i].type = type
        /\ type = "arr" => store[i].currency = (IF currency = "undefined" THEN "usd" ELSE currency)}

\* the answer is a candidate, and whenever two candidates tie on value the
\* most recent is preferred
C23_HighestValue ==
    asked # NoQuery
      => LET cand == Candidates(asked.type, asked.currency)
         IN  IF cand = {}
             THEN latest = NoMilestone
             ELSE \E i \in cand :
                     /\ latest = store[i]
                     /\ \A j \in cand : store[j].value <= store[i].value

\* C23 (as stated): after any sequence of saves, getLatestByType(type,
\* currency) returns the stored milestone of that type (for 'arr': of that
\* type and currency) with the most recent createdAt, and among those created
\* at that same time the one with the highest value; it returns nothing when
\* no milestone of the type is stored.
C23_LatestByType ==
    asked # NoQuery
      => LET cand == Candidates(asked.type, asked.currency)
         IN  IF cand = {}
             THEN latest = NoMilestone
             ELSE \E i \in cand :
                     /\ latest = store[i]
                     /\ \A j \in cand : store[j].createdAt <= store[i].createdAt
                     /\ \A j \in cand :
                          store[j].createdAt = store[i].createdAt
                            => store[j].value <= store[i].value

\* the ids of the stored milestones
StoredIds == {store[i].id : i \in DOMAIN store}

OnePerId ==
    /\ \A i, j \in DOMAIN store : store[i].id = store[j].id => i = j
    /\ ids = StoredIds

\* what a save of the milestone `saved` does to the store
SaveEffect ==
    (store' # store \/ ids' # ids \/ saved' # saved)
      => LET milestone == saved'
         IN  IF milestone.id \in StoredIds
             THEN /\ Len(store') = Len(store)
                  /\ ids' = ids
                  /\ \A i \in DOMAIN store :
                       store'[i] = IF store[i].id = milestone.id THEN milestone ELSE store[i]
             ELSE /\ store' = Append(store, milestone)
                  /\ ids' = ids \cup {milestone.id}

\* C24: after any sequence of saves the store holds at most one milestone per
\* id; a save of a milestone whose id is stored puts the new object at the
\* position of the stored one and leaves every other entry and the length of
\* the store as they were, and a save of a new id appends exactly one entry.
C24_OnePerId ==
    [](OnePerId) /\ [][SaveEffect]_vars

\* the store is full and its first entry was replaced by the last save
C24_Witness ==
    /\ Len(store) = MaxStore
    /\ saved = store[1]
    /\ saved.createdAt = 2
    /\ \E i \in 2..Len(store) : store[i].createdAt = 1

====
